---- MODULE Spec2Model ----
(***************************************************************************)
(* Player Entry Alert API (server.js): the adaptive watcher, the registry  *)
(* of watchers and the gamePk resolver, as a state machine.                *)
(*                                                                         *)
(* Time is the value of Date.now() in milliseconds.  The clock advances in *)
(* steps of POLL_FAST, the smallest timer delay of the program, and a      *)
(* timer fires when the clock has reached its due time.  An await of the   *)
(* code is a position of the watcher's loop (pc): "fetch" while            *)
(* getStatusOnce is awaited, "send" while sendEmail is awaited, "idle"     *)
(* when the loop has returned.                                             *)
(***************************************************************************)
EXTENDS Integers, Sequences, FiniteSets, TLC

VARIABLES
    watchers,       \* keys of the Map `watchers` (the value of key id is st[id])
    nextWatchId,    \* the counter nextWatchId
    st,             \* id -> the state object of startAdaptiveWatcher
    proc,           \* id -> position of loop() and its locals across an await
    now,            \* Date.now()
    ev,             \* what the last step did, as seen from outside
    obs,            \* id -> counts of what watcher id has done so far
    cfg,            \* limits of the run (fixed by Init)
    rin,            \* arguments of a call of resolveGamePkIfNeeded on its own
    rout,           \* what that call returned
    snap,           \* a snapshot of the live feed given to the entry detector
    det             \* what the entry detector made of it

vars == <<watchers, nextWatchId, st, proc, now, ev, obs, cfg, rin, rout, snap, det>>

----------------------------------------------------------------------------
\* Bounds of the model.

MaxTicks == 4           \* clock steps in a run of Spec
RegTicks == 1           \* clock steps in a run of SpecReg
MaxPollsSeen == 3       \* obs.polls saturates here
StartTicks == 200       \* Date.now() at process start, in clock steps (beyond every cooldown)

----------------------------------------------------------------------------
\* Program constants.

POLL_FAST == 5000
POLL_SLOW == 30000
POLL_FINAL == 60000
DefaultCooldownSec == 300

TickMs == POLL_FAST
StartClock == StartTicks * TickMs

----------------------------------------------------------------------------
\* JavaScript values of the request field gamePk: undefined, a number, a string.

Undef == [t |-> "undefined", n |-> 0, s |-> ""]
Num(n) == [t |-> "number", n |-> n, s |-> ""]
Str(s) == [t |-> "string", n |-> 0, s |-> s]

\* JavaScript truthiness of such a value.
Truthy(v) ==
    CASE v.t = "undefined" -> FALSE
      [] v.t = "number" -> v.n # 0
      [] OTHER -> v.s # ""

Digit(d) == <<"0", "1", "2", "3", "4", "5", "6", "7", "8", "9">>[d + 1]

RECURSIVE NumToString(_)
\* Number.prototype.toString of a non-negative integer.
NumToString(n) ==
    IF n < 10 THEN Digit(n) ELSE NumToString(n \div 10) \o Digit(n % 10)

\* value.toString(): a string is returned as it is, a number in decimal.
toString(v) == IF v.t = "number" THEN NumToString(v.n) ELSE v.s

----------------------------------------------------------------------------
\* A text (a team name, a game state label) is a sequence of tokens: the
\* letters a and b in both cases for names, whole words for labels.

Lower(c) ==
    CASE c = "A" -> "a"
      [] c = "B" -> "b"
      [] c = "In" -> "in"
      [] c = "Progress" -> "progress"
      [] c = "Final" -> "final"
      [] c = "Scheduled" -> "scheduled"
      [] c = "Unknown" -> "unknown"
      [] c = "(Simulated)" -> "(simulated)"
      [] OTHER -> c

toLowerCase(w) == [i \in 1..Len(w) |-> Lower(w[i])]

\* String.prototype.includes
includes(hay, needle) ==
    \E i \in 0..(Len(hay) - Len(needle)) :
        \A j \in 1..Len(needle) : hay[i + j] = needle[j]

\* Array.prototype.find: the first element satisfying Test, as a sequence of
\* at most one element.
find(seq, Test(_)) ==
    LET hits == {i \in 1..Len(seq) : Test(seq[i])}
    IN  IF hits = {} THEN <<>>
        ELSE <<seq[CHOOSE i \in hits : \A j \in hits : i <= j]>>

\* getTeamIdByName: exact name, then exact teamName, then name substring, all
\* case-insensitive; <<>> stands for the thrown Error.
getTeamIdByName(teams, teamName) ==
    LET t == toLowerCase(teamName)
        byName(x) == toLowerCase(x.name) = t
        byShort(x) == toLowerCase(x.teamName) = t
        bySub(x) == includes(toLowerCase(x.name), t)
        hit == IF find(teams, byName) # <<>> THEN find(teams, byName)
               ELSE IF find(teams, byShort) # <<>> THEN find(teams, byShort)
               ELSE find(teams, bySub)
    IN  IF hit = <<>> THEN <<>> ELSE <<hit[1].id>>

\* getScheduleForDate: the schedule is a function from (teamId, day) to the
\* gamePk of the first game of that day, 0 when there is none.
getScheduleForDate(sched, teamId, day) ==
    IF <<teamId, day>> \in DOMAIN sched THEN sched[<<teamId, day>>] ELSE 0

\* ymd(d) after `new Date(date); d.setDate(d.getDate() + k)`: the date string
\* is parsed as UTC midnight while getDate, setDate and ymd work in local
\* time, so west of UTC the local day is the day before.
ShiftedDay(date, k, westOfUTC) == date + k - (IF westOfUTC THEN 1 ELSE 0)

\* The dates probed after the exact date, in order.
ProbeDays(date, westOfUTC) ==
    [i \in 1..3 |-> ShiftedDay(date, 0 - i, westOfUTC)] \o
    [i \in 1..3 |-> ShiftedDay(date, i, westOfUTC)]

RECURSIVE FirstGame(_, _, _, _)
\* The loops over the probed days: the first day with a game ends the search.
\* Returns <<gamePk, requests made>>.
FirstGame(sched, teamId, days, calls) ==
    IF days = <<>> THEN <<0, calls>>
    ELSE LET pk == getScheduleForDate(sched, teamId, Head(days))
             made == Append(calls, <<"schedule", Head(days)>>)
         IN  IF pk # 0 THEN <<pk, made>>
             ELSE FirstGame(sched, teamId, Tail(days), made)

SimulationPk == "(simulation)"

\* (resolveSuppliedFirst: the test of gamePk before the test of simulate.)
resolveSuppliedFirst(team, date, gamePk, simulate, net) ==
    IF Truthy(gamePk) THEN [ok |-> TRUE, pk |-> toString(gamePk), calls |-> <<>>]
    ELSE IF simulate THEN [ok |-> TRUE, pk |-> SimulationPk, calls |-> <<>>]
    ELSE
        LET tid == getTeamIdByName(net.teams, team)
        IN  IF tid = <<>>
            THEN [ok |-> FALSE, pk |-> "", calls |-> <<<<"teams", 0>>>>]
            ELSE
                LET r == FirstGame(net.sched, tid[1],
                                   <<date>> \o ProbeDays(date, net.westOfUTC),
                                   <<<<"teams", 0>>>>)
                IN  IF r[1] # 0
                    THEN [ok |-> TRUE, pk |-> NumToString(r[1]), calls |-> r[2]]
                    ELSE [ok |-> FALSE, pk |-> "", calls |-> r[2]]

\* resolveGamePkIfNeeded.  net is what the provider would answer: the teams,
\* the schedule and whether the server's time zone is west of UTC.  The
\* result has ok (FALSE: an Error was thrown), the gamePk and the requests
\* made, in order.
resolveGamePkIfNeeded(team, date, gamePk, simulate, net) ==
    IF simulate THEN [ok |-> TRUE, pk |-> SimulationPk, calls |-> <<>>]
    ELSE IF Truthy(gamePk) THEN [ok |-> TRUE, pk |-> toString(gamePk), calls |-> <<>>]
    ELSE
        LET tid == getTeamIdByName(net.teams, team)
        IN  IF tid = <<>>
            THEN [ok |-> FALSE, pk |-> "", calls |-> <<<<"teams", 0>>>>]
            ELSE
                LET r == FirstGame(net.sched, tid[1],
                                   <<date>> \o ProbeDays(date, net.westOfUTC),
                                   <<<<"teams", 0>>>>)
                IN  IF r[1] # 0
                    THEN [ok |-> TRUE, pk |-> NumToString(r[1]), calls |-> r[2]]
                    ELSE [ok |-> FALSE, pk |-> "", calls |-> r[2]]

----------------------------------------------------------------------------
\* The entry detector.  A roster entry has the player's fullName, the
\* battingOrder and the counters of stats.batting, stats.fielding and
\* stats.pitching, each a JavaScript value (Undef: the field is absent).  A
\* play is its result.description, a text.

NoBatting == [atBats |-> Undef, plateAppearances |-> Undef, hits |-> Undef,
              runs |-> Undef, rbi |-> Undef]
NoFielding == [putOuts |-> Undef, assists |-> Undef, chances |-> Undef]
NoPitching == [battersFaced |-> Undef, pitchesThrown |-> Undef, inningsPitched |-> Undef]

\* (x || 0) of a counter.
OrZero(v) == IF v.t = "number" /\ Truthy(v) THEN v.n ELSE 0

battingActivity(bat) ==
    \/ OrZero(bat.atBats) > 0
    \/ OrZero(bat.plateAppearances) > 0
    \/ OrZero(bat.hits) > 0
    \/ OrZero(bat.runs) > 0
    \/ OrZero(bat.rbi) > 0

fieldingActivity(fld) ==
    \/ OrZero(fld.putOuts) > 0
    \/ OrZero(fld.assists) > 0
    \/ OrZero(fld.chances) > 0

\* (pitchingActivityAnyInnings: inningsPitched without the comparison with
\* '0.0'.)
pitchingActivityAnyInnings(pit) ==
    \/ OrZero(pit.battersFaced) > 0
    \/ OrZero(pit.pitchesThrown) > 0
    \/ Truthy(pit.inningsPitched)

pitchingActivity(pit) ==
    \/ OrZero(pit.battersFaced) > 0
    \/ OrZero(pit.pitchesThrown) > 0
    \/ (Truthy(pit.inningsPitched) /\ pit.inningsPitched # Str("0.0"))

\* (playerAppearedFromBoxscoreNoOrder: the test without battingOrder.)
playerAppearedFromBoxscoreNoOrder(match) ==
    IF match = <<>> THEN FALSE
    ELSE \/ battingActivity(match[1].bat)
         \/ fieldingActivity(match[1].fld)
         \/ pitchingActivity(match[1].pit)

\* playerAppearedFromBoxscore; match is <<>> (no entry) or <<entry>>.
playerAppearedFromBoxscore(match) ==
    IF match = <<>> THEN FALSE
    ELSE \/ Truthy(match[1].battingOrder)
         \/ battingActivity(match[1].bat)
         \/ fieldingActivity(match[1].fld)
         \/ pitchingActivity(match[1].pit)

keywords ==
    {<<"defensive", "substitution">>, <<"pinch-hits">>, <<"pinch", "hits">>,
     <<"pinch-running">>, <<"pinch", "runs">>, <<"enters", "the", "game">>,
     <<"replaces">>}

\* playerAppearedFromPlays
playerAppearedFromPlays(allPlays, playerName) ==
    IF allPlays = <<>> \/ playerName = <<>> THEN FALSE
    ELSE LET needle == toLowerCase(playerName)
         IN  \E i \in 1..Len(allPlays) :
                 LET desc == toLowerCase(allPlays[i])
                 IN  includes(desc, needle) /\ \E k \in keywords : includes(desc, k)

\* A side of the boxscore: present FALSE when liveData.boxscore.teams has no
\* such side, else the entries of its players.
NoSide == [present |-> FALSE, players |-> <<>>]
Side(players) == [present |-> TRUE, players |-> players]

\* findByName of getStatusOnce and of GET /api/playerStatus.
findByName(side, playerName) ==
    LET same(p) == toLowerCase(p.fullName) = toLowerCase(playerName)
    IN  find(side.players, same)

\* The entry of the player, the home side first; <<>> when on neither side.
Match(snapshot, playerName) ==
    LET h == findByName(snapshot.home, playerName)
        a == findByName(snapshot.away, playerName)
    IN  IF h # <<>> THEN h ELSE a

\* getStatusOnce, lines 292-310: the value of `entered` for a snapshot.
Entered(snapshot, playerName) ==
    LET match == IF snapshot.home.present /\ snapshot.away.present
                 THEN Match(snapshot, playerName) ELSE <<>>
    IN  \/ playerAppearedFromBoxscore(match)
        \/ playerAppearedFromPlays(snapshot.plays, playerName)

\* The answer of fetchLiveFeed as getStatusOnce reads it.
FeedOf(snapshot, playerName) ==
    [ok |-> TRUE, entered |-> Entered(snapshot, playerName), label |-> snapshot.label]

\* GET /api/playerStatus without simulate, with gamePk and playerName, on a
\* feed that was fetched: the status code and the inGame of the answer.
playerStatus(snapshot, playerName, team) ==
    LET t == toLowerCase(team)
        matchesTeam == \/ includes(toLowerCase(snapshot.teams.home), t)
                       \/ includes(toLowerCase(snapshot.teams.away), t)
        match == Match(snapshot, playerName)
    IN  IF team # <<>> /\ ~matchesTeam
        THEN [status |-> 409, inGame |-> FALSE, reason |-> "TEAM_MISMATCH"]
        ELSE IF ~snapshot.home.present \/ ~snapshot.away.present
        THEN [status |-> 200, inGame |-> FALSE, reason |-> "Boxscore not available yet"]
        ELSE IF match = <<>>
        THEN [status |-> 404, inGame |-> FALSE, reason |-> "PLAYER_NOT_IN_GAME"]
        ELSE [status |-> 200,
              inGame |-> \/ playerAppearedFromBoxscore(match)
                         \/ playerAppearedFromPlays(snapshot.plays, playerName),
              reason |-> ""]

----------------------------------------------------------------------------
\* The watcher.

\* What the live feed answers to one request: ok FALSE is a failed request
\* (fetchLiveFeed throws), else whether the player is found to have entered
\* and the detailedState label (<<>>: the feed has none).
FeedLabels ==
    {<<"In", "Progress">>, <<"Final">>, <<"Scheduled">>, <<>>,
     <<"Final", "in", "progress">>}

FeedAnswers ==
    {[ok |-> FALSE, entered |-> FALSE, label |-> <<>>]} \cup
    {[ok |-> TRUE, entered |-> e, label |-> l] : e \in BOOLEAN, l \in FeedLabels}

\* getStatusOnce: in simulation the fixed status, without a request.
getStatusOnce(params, feed) ==
    IF params.simulate
    THEN [ok |-> TRUE, inGame |-> TRUE,
          rawGameState |-> <<"In", "Progress", "(Simulated)">>]
    ELSE IF ~feed.ok
    THEN [ok |-> FALSE, inGame |-> FALSE, rawGameState |-> <<>>]
    ELSE [ok |-> TRUE, inGame |-> feed.entered,
          rawGameState |-> IF feed.label = <<>> THEN <<"Unknown">> ELSE feed.label]

\* (PollIntervalCaseSensitive: the label compared without toLowerCase.)
PollIntervalCaseSensitive(rawGameState) ==
    IF includes(rawGameState, <<"progress">>) THEN POLL_FAST
    ELSE IF includes(rawGameState, <<"final">>) THEN POLL_FINAL
    ELSE POLL_SLOW

\* The interval chosen by loop() from s.rawGameState.
PollInterval(rawGameState) ==
    LET label == toLowerCase(rawGameState)
    IN  IF includes(label, <<"progress">>) THEN POLL_FAST
        ELSE IF includes(label, <<"final">>) THEN POLL_FINAL
        ELSE POLL_SLOW

NoTimer == [set |-> FALSE, pending |-> FALSE, ms |-> 0, due |-> 0]

\* The state object of a new watcher.
NewState(id, params) ==
    [id |-> id, params |-> params, lastInGame |-> FALSE, lastAlertAt |-> 0,
     stopped |-> FALSE, timer |-> NoTimer]

\* (scheduleNextAlways: scheduleNext without its line 331.)
scheduleNextAlways(s, ms, t) ==
    [s EXCEPT !.timer = [set |-> TRUE, pending |-> TRUE, ms |-> ms, due |-> t + ms]]

\* scheduleNext(ms) on state object s at time t.
scheduleNext(s, ms, t) ==
    IF s.stopped THEN s
    ELSE [s EXCEPT !.timer = [set |-> TRUE, pending |-> TRUE, ms |-> ms, due |-> t + ms]]

\* (stopWatcherKeep: stopWatcher without its line 373.)
stopWatcherKeep(id, W, S) ==
    IF id \notin W THEN [ok |-> FALSE, watchers |-> W, st |-> S]
    ELSE [ok |-> TRUE,
          watchers |-> W,
          st |-> [S EXCEPT ![id].stopped = TRUE, ![id].timer.pending = FALSE]]

\* stopWatcher(id) on the registry W and the state objects S: the returned
\* boolean, the registry and the state objects afterwards.
stopWatcher(id, W, S) ==
    IF id \notin W THEN [ok |-> FALSE, watchers |-> W, st |-> S]
    ELSE [ok |-> TRUE,
          watchers |-> W \ {id},
          st |-> [S EXCEPT ![id].stopped = TRUE, ![id].timer.pending = FALSE]]

\* The test of loop() for an alert: a rising edge with the cooldown over.
\* (RisingEdgeLevel: the test without the previous poll's result.)
RisingEdgeLevel(s, inGame) == inGame

RisingEdge(s, inGame) == ~s.lastInGame /\ inGame

\* (CooldownOverStrict: the comparison with > for >=.)
CooldownOverStrict(s, t) == t - s.lastAlertAt > s.params.cooldownSec * 1000

CooldownOver(s, t) == t - s.lastAlertAt >= s.params.cooldownSec * 1000

\* (AfterAlertLate: Date.now() read again after the email, for the value
\* read at the decision.)
AfterAlertLate(id, inGame, interval, alertNow, t, W, S) ==
    LET S1 == [S EXCEPT ![id].lastAlertAt = t]
    IN  IF S1[id].params.stopAfterAlert
        THEN LET r == stopWatcher(id, W, S1)
             IN  [watchers |-> r.watchers, st |-> r.st]
        ELSE [watchers |-> W,
              st |-> [S1 EXCEPT ![id] =
                        scheduleNext([@ EXCEPT !.lastInGame = inGame], interval, t)]]

\* (AfterAlertNoStop: loop() without its line 351.)
AfterAlertNoStop(id, inGame, interval, alertNow, t, W, S) ==
    [watchers |-> W,
     st |-> [S EXCEPT ![id] =
               scheduleNext([@ EXCEPT !.lastAlertAt = alertNow, !.lastInGame = inGame],
                            interval, t)]]

\* loop(), lines 350-356: what follows the (skipped, sent or failed) email of
\* an alert decided at time alertNow, run at time t.
AfterAlert(id, inGame, interval, alertNow, t, W, S) ==
    LET S1 == [S EXCEPT ![id].lastAlertAt = alertNow]
    IN  IF S1[id].params.stopAfterAlert
        THEN LET r == stopWatcher(id, W, S1)
             IN  [watchers |-> r.watchers, st |-> r.st]
        ELSE [watchers |-> W,
              st |-> [S1 EXCEPT ![id] =
                        scheduleNext([@ EXCEPT !.lastInGame = inGame], interval, t)]]

\* (NoAlertKeep: lastInGame left false by a rising edge that decided no
\* alert, line 355 moved into the else of the test of line 345.)
NoAlertKeep(id, inGame, interval, t, S) ==
    [S EXCEPT ![id] =
        scheduleNext([@ EXCEPT !.lastInGame = IF inGame /\ ~@ THEN FALSE ELSE inGame],
                     interval, t)]

\* loop(), lines 355-356, when no alert was decided.
NoAlert(id, inGame, interval, t, S) ==
    [S EXCEPT ![id] = scheduleNext([@ EXCEPT !.lastInGame = inGame], interval, t)]

\* (OnWatcherErrorDrop: the catch without its scheduleNext.)
OnWatcherErrorDrop(id, t, S) == S

\* (OnWatcherErrorFast: the catch rescheduling at POLL_FAST.)
OnWatcherErrorFast(id, t, S) ==
    [S EXCEPT ![id] = scheduleNext(@, POLL_FAST, t)]

\* loop(), lines 357-360: the catch of a failed getStatusOnce.
OnWatcherError(id, t, S) ==
    [S EXCEPT ![id] = scheduleNext(@, POLL_SLOW, t)]

\* (AfterSendAbort: line 349 without its try/catch, a failed send reaching
\* the catch of loop().)
AfterSendAbort(id, sent, p, t, W, S) ==
    IF sent THEN AfterAlert(id, p.inGame, p.interval, p.at, t, W, S)
    ELSE [watchers |-> W, st |-> OnWatcherError(id, t, S)]

\* loop(), line 349: what a failed sendEmail leads to; the inner catch logs
\* the error and the loop goes on as after a successful send.
AfterSend(id, sent, p, t, W, S) ==
    AfterAlert(id, p.inGame, p.interval, p.at, t, W, S)

----------------------------------------------------------------------------
\* Positions of loop().

Fetching == [pc |-> "fetch", inGame |-> FALSE, interval |-> 0, at |-> 0]
Idle == [pc |-> "idle", inGame |-> FALSE, interval |-> 0, at |-> 0]
Sending(inGame, interval, at) ==
    [pc |-> "send", inGame |-> inGame, interval |-> interval, at |-> at]

\* Counts kept for watcher id: alerts decided, polls settled (up to
\* MaxPollsSeen), whether every poll so far reported the player in the game,
\* calls of sendEmail, the time of the last alert decided, whether a rising
\* edge was ever passed over because of the cooldown, the calls of loop()
\* that have not returned yet, and whether a rising edge was passed over
\* because of the cooldown with no poll since reporting the player out of
\* the game.
NoObs ==
    [alerts |-> 0, polls |-> 0, onlyActive |-> TRUE, sent |-> 0,
     firedAt |-> 0, blocked |-> FALSE, inflight |-> 0, missed |-> FALSE]

Bump(n) == IF n < MaxPollsSeen THEN n + 1 ELSE n

\* The last step: an HTTP response ("start", "stop": ok and the status code),
\* a settled poll ("poll": ok FALSE when the fetch failed, what it reported,
\* whether it was a rising edge, whether an alert was decided), a settled
\* sendEmail ("sent": ok FALSE when it threw), or none of these.  label is
\* the rawGameState a settled poll got.
Event(op, id, ok, status, poll, edge, alert) ==
    [op |-> op, id |-> id, ok |-> ok, status |-> status, poll |-> poll,
     edge |-> edge, alert |-> alert, label |-> <<>>]

NoEvent == Event("none", 0, FALSE, 0, "none", FALSE, FALSE)

Ids == 1..(nextWatchId - 1)

\* GET /api/watch: the summaries of the registered watchers.
list ==
    {[id |-> st[i].id, gamePk |-> st[i].params.gamePk, simulate |-> st[i].params.simulate,
      lastInGame |-> st[i].lastInGame, lastAlertAt |-> st[i].lastAlertAt] : i \in watchers}

----------------------------------------------------------------------------
\* The requests and what the provider answers to them.

Teams == <<[id |-> 1, name |-> <<"A", "b">>, teamName |-> <<"b">>]>>
Date0 == 10
Net0 == [teams |-> Teams, sched |-> (<<1, Date0 - 2>> :> 1002), westOfUTC |-> FALSE]
NetNoGame == [teams |-> Teams, sched |-> (<<1, Date0 - 5>> :> 1005), westOfUTC |-> FALSE]

\* Bodies of POST /api/watch/start, after the defaults of the handler, each
\* with the provider's data at that time: the fields resolution reads ...
Query(playerName, team, gamePk, simulate, net) ==
    [playerName |-> playerName, team |-> team, gamePk |-> gamePk,
     simulate |-> simulate, net |-> net]

QSim == Query(TRUE, <<"a", "b">>, Undef, TRUE, Net0)
QPk == Query(TRUE, <<"a", "b">>, Num(7), FALSE, Net0)
QSched == Query(TRUE, <<"a", "b">>, Undef, FALSE, Net0)
QNoTeam == Query(TRUE, <<"b", "b">>, Undef, FALSE, Net0)
QNoGame == Query(TRUE, <<"a", "b">>, Undef, FALSE, NetNoGame)
QNoName == Query(FALSE, <<"a", "b">>, Num(7), FALSE, Net0)

\* ... and the fields the watcher reads.
Options(emailTo, cooldowns, stopAfterAlert) ==
    [emailTo : emailTo, cooldownSec : cooldowns, stopAfterAlert : stopAfterAlert]

----------------------------------------------------------------------------
\* Actions.

\* (StartWatchEager: the watcher created before the resolution is awaited, so
\* that a failed resolution leaves a state object and a used id behind.)
StartWatchEager(q) ==
    LET r == resolveGamePkIfNeeded(q.team, Date0, q.gamePk, q.simulate, q.net)
        id == nextWatchId
        good == q.playerName /\ r.ok
    IN  /\ nextWatchId <= cfg.watchers
        /\ \E opt \in cfg.options :
             st' = Append(st, NewState(id,
                       [simulate |-> q.simulate, emailTo |-> opt.emailTo,
                        cooldownSec |-> opt.cooldownSec,
                        stopAfterAlert |-> opt.stopAfterAlert, gamePk |-> r.pk]))
        /\ nextWatchId' = nextWatchId + 1
        /\ proc' = Append(proc, IF good THEN Fetching ELSE Idle)
        /\ obs' = Append(obs, [NoObs EXCEPT !.inflight = IF good THEN 1 ELSE 0])
        /\ watchers' = IF good THEN watchers \cup {id} ELSE watchers
        /\ ev' = IF good THEN Event("start", id, TRUE, 200, "none", FALSE, FALSE)
                 ELSE Event("start", 0, FALSE, 400, "none", FALSE, FALSE)
        /\ UNCHANGED <<now, cfg, rin, rout, snap, det>>

\* POST /api/watch/start with startAdaptiveWatcher: resolution, then the new
\* state object, the first loop() up to its await, and the registration.
\* Nothing of the program's state is read or written before resolution ends.
StartWatch(q) ==
    LET r == resolveGamePkIfNeeded(q.team, Date0, q.gamePk, q.simulate, q.net)
        id == nextWatchId
    IN  IF ~q.playerName \/ ~r.ok
        THEN /\ ev' = Event("start", 0, FALSE, 400, "none", FALSE, FALSE)
             /\ UNCHANGED <<watchers, nextWatchId, st, proc, now, obs, cfg, rin, rout, snap, det>>
        ELSE /\ nextWatchId <= cfg.watchers
             /\ \E opt \in cfg.options :
                  st' = Append(st, NewState(id,
                            [simulate |-> q.simulate, emailTo |-> opt.emailTo,
                             cooldownSec |-> opt.cooldownSec,
                             stopAfterAlert |-> opt.stopAfterAlert, gamePk |-> r.pk]))
             /\ nextWatchId' = nextWatchId + 1
             /\ proc' = Append(proc, Fetching)
             /\ obs' = Append(obs, [NoObs EXCEPT !.inflight = 1])
             /\ watchers' = watchers \cup {id}
             /\ ev' = Event("start", id, TRUE, 200, "none", FALSE, FALSE)
             /\ UNCHANGED <<now, cfg, rin, rout, snap, det>>

\* POST /api/watch/stop; id 0 stands for a request without id.
StopWatch(id) ==
    IF id = 0
    THEN /\ ev' = Event("stop", 0, FALSE, 400, "none", FALSE, FALSE)
         /\ UNCHANGED <<watchers, nextWatchId, st, proc, now, obs, cfg, rin, rout, snap, det>>
    ELSE LET r == stopWatcher(id, watchers, st)
         IN  /\ watchers' = r.watchers
             /\ st' = r.st
             /\ ev' = Event("stop", id, r.ok, 200, "none", FALSE, FALSE)
             /\ UNCHANGED <<nextWatchId, proc, now, obs, cfg, rin, rout, snap, det>>

\* (TimerFireTicker: a fixed-rate ticker, setInterval for setTimeout: the
\* timer is armed again when it fires.)
TimerFireTicker(id) ==
    /\ id \in Ids
    /\ st[id].timer.pending
    /\ st[id].timer.due <= now
    /\ st' = [st EXCEPT ![id].timer.due = now + st[id].timer.ms]
    /\ proc' = [proc EXCEPT ![id] = Fetching]
    /\ obs' = [obs EXCEPT ![id].inflight = @ + 1]
    /\ ev' = NoEvent
    /\ UNCHANGED <<watchers, nextWatchId, now, cfg, rin, rout, snap, det>>

\* The timer of watcher id fires: loop() runs up to the await of getStatusOnce.
TimerFire(id) ==
    /\ id \in Ids
    /\ st[id].timer.pending
    /\ st[id].timer.due <= now
    /\ st' = [st EXCEPT ![id].timer.pending = FALSE]
    /\ proc' = [proc EXCEPT ![id] = Fetching]
    /\ obs' = [obs EXCEPT ![id].inflight = @ + 1]
    /\ ev' = NoEvent
    /\ UNCHANGED <<watchers, nextWatchId, now, cfg, rin, rout, snap, det>>

\* getStatusOnce settles: loop() runs to its end or to the await of sendEmail.
FetchDone(id, feed) ==
    /\ id \in Ids
    /\ proc[id].pc = "fetch"
    /\ LET s == getStatusOnce(st[id].params, feed)
           interval == PollInterval(s.rawGameState)
           edge == s.ok /\ RisingEdge(st[id], s.inGame)
           alert == edge /\ CooldownOver(st[id], now)
           mail == alert /\ st[id].params.emailTo
           seen == [obs[id] EXCEPT
                      !.polls = Bump(@),
                      !.onlyActive = @ /\ s.ok /\ s.inGame,
                      !.alerts = IF alert THEN @ + 1 ELSE @,
                      !.firedAt = IF alert THEN now ELSE @,
                      !.blocked = @ \/ (edge /\ ~alert),
                      !.missed = (edge /\ ~alert) \/ (@ /\ ~(s.ok /\ ~s.inGame)),
                      !.sent = IF mail THEN @ + 1 ELSE @,
                      !.inflight = IF mail THEN @ ELSE @ - 1]
           poll == IF ~s.ok THEN "failed" ELSE IF s.inGame THEN "active" ELSE "inactive"
       IN  /\ obs' = [obs EXCEPT ![id] = seen]
           /\ ev' = [Event("poll", id, s.ok, 0, poll, edge, alert)
                        EXCEPT !.label = s.rawGameState]
           /\ IF ~s.ok
              THEN /\ st' = OnWatcherError(id, now, st)
                   /\ proc' = [proc EXCEPT ![id] = Idle]
                   /\ UNCHANGED watchers
              ELSE IF mail
              THEN /\ proc' = [proc EXCEPT ![id] = Sending(s.inGame, interval, now)]
                   /\ UNCHANGED <<watchers, st>>
              ELSE IF alert
              THEN LET r == AfterAlert(id, s.inGame, interval, now, now, watchers, st)
                   IN  /\ watchers' = r.watchers
                       /\ st' = r.st
                       /\ proc' = [proc EXCEPT ![id] = Idle]
              ELSE /\ st' = NoAlert(id, s.inGame, interval, now, st)
                   /\ proc' = [proc EXCEPT ![id] = Idle]
                   /\ UNCHANGED watchers
    /\ UNCHANGED <<nextWatchId, now, cfg, rin, rout, snap, det>>

\* sendEmail settles (sent FALSE: it throws): loop() runs to its end.
SendDone(id, sent) ==
    /\ id \in Ids
    /\ proc[id].pc = "send"
    /\ LET r == AfterSend(id, sent, proc[id], now, watchers, st)
       IN  /\ watchers' = r.watchers
           /\ st' = r.st
    /\ proc' = [proc EXCEPT ![id] = Idle]
    /\ obs' = [obs EXCEPT ![id].inflight = @ - 1]
    /\ ev' = Event("sent", id, sent, 0, "none", FALSE, FALSE)
    /\ UNCHANGED <<nextWatchId, now, cfg, rin, rout, snap, det>>

\* The clock advances; a pending timer fires no later than its due time.
Tick ==
    /\ now + TickMs <= StartClock + cfg.ticks * TickMs
    /\ \A id \in Ids : st[id].timer.pending => st[id].timer.due >= now + TickMs
    /\ now' = now + TickMs
    /\ ev' = NoEvent
    /\ UNCHANGED <<watchers, nextWatchId, st, proc, obs, cfg, rin, rout, snap, det>>

Next ==
    \/ \E q \in cfg.queries : StartWatch(q)
    \/ \E id \in 0..(cfg.watchers + 1) : StopWatch(id)
    \/ \E id \in Ids : TimerFire(id)
    \/ \E id \in Ids, feed \in cfg.feeds : FetchDone(id, feed)
    \/ \E id \in Ids, sent \in BOOLEAN : SendDone(id, sent)
    \/ Tick

NoSnapshot ==
    [label |-> <<>>, teams |-> [home |-> <<>>, away |-> <<>>], home |-> NoSide,
     away |-> NoSide, plays |-> <<>>, playerName |-> <<>>, team |-> <<>>]
NoDetection ==
    [done |-> FALSE, entry |-> <<>>, boxscore |-> FALSE, plays |-> FALSE,
     status |-> [ok |-> FALSE, inGame |-> FALSE, rawGameState |-> <<>>],
     oneShot |-> [status |-> 0, inGame |-> FALSE, reason |-> ""], alert |-> FALSE]

NoCall == Query(FALSE, <<>>, Undef, FALSE, [teams |-> <<>>, sched |-> <<>>, westOfUTC |-> FALSE])
NoResult == [ok |-> FALSE, pk |-> "", calls |-> <<>>, done |-> FALSE]

InitWith(c) ==
    /\ watchers = {}
    /\ nextWatchId = 1
    /\ st = <<>>
    /\ proc = <<>>
    /\ obs = <<>>
    /\ now = StartClock
    /\ ev = NoEvent
    /\ cfg = c
    /\ rin = NoCall
    /\ rout = NoResult
    /\ snap = NoSnapshot
    /\ det = NoDetection

\* One watcher, followed over MaxTicks clock steps, with short cooldowns.
Init ==
    InitWith([watchers |-> 1, ticks |-> MaxTicks,
              options |-> Options(BOOLEAN, {0, 15}, BOOLEAN),
              queries |-> {QSim, QPk, QNoName},
              feeds |-> FeedAnswers])

Spec == Init /\ [][Next]_vars

\* In simulation getStatusOnce returns without a request: its await resumes
\* as soon as the event loop runs the continuation.  A fetch of the feed or a
\* call of sendEmail is a network request and may never settle.
SimPollSettles ==
    \E id \in Ids, feed \in cfg.feeds : st[id].params.simulate /\ FetchDone(id, feed)

FairSpec == Spec /\ WF_vars(SimPollSettles)

\* Two watchers with the defaults of the handler (cooldownSec 300,
\* stopAfterAlert true) and an email address; the feed fails, or reports a
\* game in progress with the player in it or not yet in it.
InitReg ==
    InitWith([watchers |-> 2, ticks |-> RegTicks,
              options |-> Options({TRUE}, {DefaultCooldownSec}, {TRUE}),
              queries |-> {QSim, QSched, QNoTeam, QNoGame},
              feeds |-> {[ok |-> FALSE, entered |-> FALSE, label |-> <<>>],
                         [ok |-> TRUE, entered |-> TRUE, label |-> <<"In", "Progress">>],
                         [ok |-> TRUE, entered |-> FALSE, label |-> <<"In", "Progress">>]}])

SpecReg == InitReg /\ [][Next]_vars
----------------------------------------------------------------------------
\* resolveGamePkIfNeeded on its own: Init draws the arguments and the
\* provider's data, Resolve applies the function.

MaxGameDays == 2        \* days with a game in a drawn schedule

ScheduleOf(days) == [x \in {<<1, d>> : d \in days} |-> 1000 + x[2]]

ResolveNets ==
    {[teams |-> Teams, sched |-> ScheduleOf(days), westOfUTC |-> w] :
        days \in {D \in SUBSET ((Date0 - 4)..(Date0 + 3)) : Cardinality(D) <= MaxGameDays},
        w \in BOOLEAN}

ResolveCalls ==
    {Query(TRUE, team, gamePk, simulate, net) :
        team \in {<<"a", "b">>, <<"B">>, <<"b", "b">>},
        gamePk \in {Undef, Num(0), Num(7), Str(""), Str("7")},
        simulate \in BOOLEAN,
        net \in ResolveNets}

InitResolve ==
    /\ watchers = {}
    /\ nextWatchId = 1
    /\ st = <<>>
    /\ proc = <<>>
    /\ obs = <<>>
    /\ now = StartClock
    /\ ev = NoEvent
    /\ cfg = [watchers |-> 0, ticks |-> 0, options |-> {}, queries |-> {}, feeds |-> {}]
    /\ rin \in ResolveCalls
    /\ rout = NoResult
    /\ snap = NoSnapshot
    /\ det = NoDetection

Resolve ==
    /\ ~rout.done
    /\ LET r == resolveGamePkIfNeeded(rin.team, Date0, rin.gamePk, rin.simulate, rin.net)
       IN  rout' = [ok |-> r.ok, pk |-> r.pk, calls |-> r.calls, done |-> TRUE]
    /\ UNCHANGED <<watchers, nextWatchId, st, proc, now, ev, obs, cfg, rin, snap, det>>

SpecResolve == InitResolve /\ [][Resolve]_vars

----------------------------------------------------------------------------
\* The entry detector on its own: Init draws a snapshot of the live feed, the
\* player's name and the team of the request; Detect applies the detector as
\* GET /api/playerStatus and as the watcher's poll do.

Player == <<"a", "b">>

ZeroStats ==
    [bat |-> [atBats |-> Num(0), plateAppearances |-> Num(0), hits |-> Num(0),
              runs |-> Num(0), rbi |-> Num(0)],
     fld |-> [putOuts |-> Num(0), assists |-> Num(0), chances |-> Num(0)],
     pit |-> [battersFaced |-> Num(0), pitchesThrown |-> Num(0),
              inningsPitched |-> Str("0.0")]]

AbsentStats == [bat |-> NoBatting, fld |-> NoFielding, pit |-> NoPitching]

\* The counters all zero or absent, or all zero but one.
StatsSet ==
    {ZeroStats, AbsentStats}
    \cup {[ZeroStats EXCEPT !.bat[c] = Num(1)] : c \in DOMAIN NoBatting}
    \cup {[ZeroStats EXCEPT !.fld[c] = Num(1)] : c \in DOMAIN NoFielding}
    \cup {[ZeroStats EXCEPT !.pit[c] = Num(1)] : c \in {"battersFaced", "pitchesThrown"}}
    \cup {[ZeroStats EXCEPT !.pit.inningsPitched = Str("0.1")]}

Entry(fullName, battingOrder, stats) ==
    [fullName |-> fullName, battingOrder |-> battingOrder,
     bat |-> stats.bat, fld |-> stats.fld, pit |-> stats.pit]

PlayerEntries ==
    {Entry(<<"A", "b">>, bo, stats) : bo \in {Undef, Str(""), Str("501")}, stats \in StatsSet}

OtherEntry == Entry(<<"b">>, Str("100"), ZeroStats)

\* The two sides of the boxscore: <<home, away>>.
SidePairs ==
    {<<NoSide, NoSide>>, <<Side(<<>>), Side(<<OtherEntry>>)>>}
    \cup {<<NoSide, Side(<<e>>)>> : e \in PlayerEntries}
    \cup {<<Side(<<e>>), NoSide>> : e \in PlayerEntries}
    \cup {<<Side(<<e>>), Side(<<>>)>> : e \in PlayerEntries}
    \cup {<<Side(<<OtherEntry>>), Side(<<e>>)>> : e \in PlayerEntries}

\* liveData.plays.allPlays: none, the player entering, the player in a play
\* without a keyword, a keyword in a play without the player, and the last
\* two together.
PlayLists ==
    {<<>>,
     <<<<"A", "b", "enters", "the", "game">>>>,
     <<<<"A", "b", "walks">>>>,
     <<<<"c", "replaces", "d">>>>,
     <<<<"c", "replaces", "d">>, <<"A", "b", "walks">>>>}

Snapshots ==
    {[label |-> l, teams |-> [home |-> <<"A", "b">>, away |-> <<"b">>],
      home |-> sides[1], away |-> sides[2], plays |-> plays,
      playerName |-> Player, team |-> team] :
        l \in {<<"Scheduled">>, <<"In", "Progress">>},
        sides \in SidePairs,
        plays \in PlayLists,
        team \in {<<>>, <<"c">>}}

InitDetect ==
    /\ watchers = {}
    /\ nextWatchId = 1
    /\ st = <<>>
    /\ proc = <<>>
    /\ obs = <<>>
    /\ now = StartClock
    /\ ev = NoEvent
    /\ cfg = [watchers |-> 0, ticks |-> 0, options |-> {}, queries |-> {}, feeds |-> {}]
    /\ rin = NoCall
    /\ rout = NoResult
    /\ snap \in Snapshots
    /\ det = NoDetection

\* The detector applied to snap: the player's entry and the two heuristics,
\* the status getStatusOnce returns, the answer of GET /api/playerStatus, and
\* whether the first poll of a watcher with the handler's defaults decides an
\* alert on that status.
Detect ==
    /\ ~det.done
    /\ LET entry == Match(snap, snap.playerName)
           status == getStatusOnce([simulate |-> FALSE], FeedOf(snap, snap.playerName))
           fresh == NewState(1, [simulate |-> FALSE, emailTo |-> TRUE,
                                 cooldownSec |-> DefaultCooldownSec,
                                 stopAfterAlert |-> TRUE, gamePk |-> "7"])
       IN  det' = [done |-> TRUE,
                   entry |-> entry,
                   boxscore |-> playerAppearedFromBoxscore(entry),
                   plays |-> playerAppearedFromPlays(snap.plays, snap.playerName),
                   status |-> status,
                   oneShot |-> playerStatus(snap, snap.playerName, snap.team),
                   alert |-> RisingEdge(fresh, status.inGame) /\ CooldownOver(fresh, now)]
    /\ UNCHANGED <<watchers, nextWatchId, st, proc, now, ev, obs, cfg, rin, rout, snap>>

SpecDetect == InitDetect /\ [][Detect]_vars

----------------------------------------------------------------------------
\* Properties.

KeepsRunning(id) == ~st[id].params.stopAfterAlert
Elapsed(id) == now - obs[id].firedAt
CooldownMs(id) == st[id].params.cooldownSec * 1000

\* C1.  Rising edge: a watcher with stopAfterAlert false decides an alert only
\* on a poll that reports the player in the game while lastInGame is false;
\* and as long as every poll since creation has reported the player in the
\* game, exactly one alert has been decided, from the first poll on.
C1_RisingEdge ==
    /\ [](\A id \in Ids :
            (KeepsRunning(id) /\ obs[id].onlyActive /\ obs[id].polls >= 1)
                => obs[id].alerts = 1)
    /\ [][(ev'.op = "poll" /\ ev'.alert /\ KeepsRunning(ev'.id))
            => (ev'.poll = "active" /\ ~st[ev'.id].lastInGame)]_vars

\* Three polls, all reporting the player in the game, and one alert.
C1_Witness ==
    \E id \in Ids :
        /\ KeepsRunning(id)
        /\ obs[id].onlyActive
        /\ obs[id].polls = 3
        /\ obs[id].alerts = 1
        /\ ev.op = "poll" /\ ev.id = id /\ ~ev.alert

\* C2.  Cooldown: for a watcher with stopAfterAlert false that has alerted
\* before, a rising edge decides an alert exactly when at least cooldownSec
\* seconds have passed since the previous alert; so two alerts of a watcher
\* are at least cooldownSec apart.
C2_Cooldown ==
    [][\A id \in Ids :
         (ev'.op = "poll" /\ ev'.id = id /\ KeepsRunning(id) /\ obs[id].alerts >= 1)
            => /\ ev'.edge => (ev'.alert <=> Elapsed(id) >= CooldownMs(id))
               /\ ev'.alert => Elapsed(id) >= CooldownMs(id)]_vars

\* A watcher that passed over a rising edge inside the cooldown and later
\* alerted a second time.
C2_Witness ==
    \E id \in Ids :
        /\ KeepsRunning(id)
        /\ st[id].params.cooldownSec > 0
        /\ obs[id].blocked
        /\ obs[id].alerts = 2

\* C3.  Auto-stop: once a watcher with stopAfterAlert true has completed an
\* alert (the alert is decided and sendEmail, if called, has settled), it is
\* stopped, absent from the registry and from list, has no pending timer and
\* no poll in flight; and it never decides more than one alert.
C3_AutoStop ==
    \A id \in Ids :
        st[id].params.stopAfterAlert =>
            /\ obs[id].alerts <= 1
            /\ (obs[id].alerts = 1 /\ proc[id].pc # "send") =>
                  /\ st[id].stopped
                  /\ id \notin watchers
                  /\ \A w \in list : w.id # id
                  /\ ~st[id].timer.pending
                  /\ proc[id].pc = "idle"

\* The state right after the alert of such a watcher that nobody stopped.
C3_Witness ==
    \E id \in Ids :
        /\ st[id].params.stopAfterAlert
        /\ ev.op = "poll" /\ ev.id = id /\ ev.alert
        /\ proc[id].pc = "idle"
        /\ st[id].stopped

SimAutoStop(id) == st[id].params.simulate /\ st[id].params.stopAfterAlert

C5_StopTerminal ==
    /\ []((ev.op = "stop" /\ ev.ok) => st[ev.id].stopped)
    /\ [](\A id \in Ids : st[id].stopped => ~st[id].timer.pending)
    /\ [][\A id \in Ids :
            st[id].stopped =>
                /\ st'[id].stopped
                /\ ~st'[id].timer.pending
                /\ proc'[id].pc = "fetch" => proc[id].pc = "fetch"]_vars

\* A watcher that was to go on after its alert, stopped while its poll was
\* in flight: sendEmail has settled and no timer is pending.
C5_Witness ==
    \E id \in Ids :
        /\ KeepsRunning(id)
        /\ ev.op = "sent" /\ ev.id = id
        /\ st[id].stopped
        /\ proc[id].pc = "idle"
        /\ ~st[id].timer.pending

EngineState == <<watchers, nextWatchId, st, proc, obs, now>>

\* C6.  stop(id) on an id that was never given out or whose watcher is
\* stopped answers ok false and changes nothing; stop(id) on a registered id
\* answers ok true, removes that id alone from the registry and leaves the
\* other watchers' state objects as they were.
C6_Stop ==
    [][(ev'.op = "stop" /\ ev'.status = 200) =>
         LET id == ev'.id
         IN  /\ (id \notin Ids \/ (id \in Ids /\ st[id].stopped))
                    => (~ev'.ok /\ UNCHANGED EngineState)
             /\ id \in watchers
                    => /\ ev'.ok
                       /\ watchers' = watchers \ {id}
                       /\ \A j \in Ids \ {id} : st'[j] = st[j]
                       /\ UNCHANGED <<nextWatchId, proc, obs>>]_vars

\* A stop refused for a watcher that stopped itself after its alert, while
\* another watcher is registered.
C6_Witness ==
    /\ ev.op = "stop" /\ ~ev.ok /\ ev.id \in Ids
    /\ st[ev.id].stopped
    /\ obs[ev.id].alerts = 1
    /\ watchers # {}

\* C7.  A poll whose fetch fails decides no alert, keeps lastInGame and
\* lastAlertAt, leaves the registry as it was and, unless the watcher is
\* stopped, sets the timer to POLL_SLOW (30 s) from now.
C7_FetchFails ==
    [][(ev'.op = "poll" /\ ~ev'.ok) =>
         LET id == ev'.id
         IN  /\ ~ev'.alert
             /\ obs'[id].alerts = obs[id].alerts
             /\ obs'[id].sent = obs[id].sent
             /\ st'[id].lastInGame = st[id].lastInGame
             /\ st'[id].lastAlertAt = st[id].lastAlertAt
             /\ watchers' = watchers
             /\ proc'[id].pc = "idle"
             /\ ~st[id].stopped =>
                   /\ st'[id].timer.pending
                   /\ st'[id].timer.ms = 30000
                   /\ st'[id].timer.due = now + 30000
             /\ st[id].stopped => ~st'[id].timer.pending]_vars

\* A failed poll of a registered watcher that had seen the player in the
\* game and had alerted.
C7_Witness ==
    /\ ev.op = "poll" /\ ~ev.ok
    /\ ev.id \in watchers
    /\ st[ev.id].lastInGame
    /\ st[ev.id].lastAlertAt # 0
    /\ st[ev.id].timer.pending

\* C8.  A failed sendEmail is not fatal: the poll goes on as after a
\* successful one.  lastAlertAt is the time of the decision; with
\* stopAfterAlert the watcher is stopped and removed; without, lastInGame
\* is updated and, unless the watcher is stopped, the timer is set to the
\* interval of the poll.
C8_SendFails ==
    /\ [](\A id \in Ids : proc[id].pc = "send" =>
            AfterSend(id, FALSE, proc[id], now, watchers, st)
              = AfterSend(id, TRUE, proc[id], now, watchers, st))
    /\ [][(ev'.op = "sent" /\ ~ev'.ok) =>
            LET id == ev'.id
                p == proc[id]
            IN  /\ st'[id].lastAlertAt = p.at
                /\ proc'[id].pc = "idle"
                /\ st[id].params.stopAfterAlert =>
                      (st'[id].stopped /\ id \notin watchers' /\ ~st'[id].timer.pending)
                /\ ~st[id].params.stopAfterAlert =>
                      /\ st'[id].lastInGame = p.inGame
                      /\ watchers' = watchers
                      /\ ~st[id].stopped =>
                            /\ st'[id].timer.pending
                            /\ st'[id].timer.ms = p.interval
                            /\ st'[id].timer.due = now + p.interval]_vars

\* A failed send of a watcher with stopAfterAlert that no request stopped.
C8_Witness ==
    /\ ev.op = "sent" /\ ~ev.ok
    /\ st[ev.id].params.stopAfterAlert
    /\ st[ev.id].stopped
    /\ ev.id \notin watchers
    /\ st[ev.id].lastAlertAt # 0

Resolution(q) == resolveGamePkIfNeeded(q.team, Date0, q.gamePk, q.simulate, q.net)

\* C9.  Creation is atomic with respect to resolution: a start request whose
\* resolution fails is answered with an error and leaves the registry, the
\* state objects, the running loops and nextWatchId as they were; a start
\* request that succeeds registers the id nextWatchId had; and every state
\* object carries a gamePk that a successful resolution returned.
C9_CreateAtomic ==
    /\ [][\A q \in cfg.queries :
            (StartWatch(q) /\ ~Resolution(q).ok) =>
                (ev'.op = "start" /\ ~ev'.ok /\ ev'.status = 400 /\ UNCHANGED EngineState)]_vars
    /\ [][(ev'.op = "start" /\ ev'.ok) =>
            /\ ev'.id = nextWatchId
            /\ nextWatchId' = nextWatchId + 1
            /\ watchers' = watchers \cup {ev'.id}]_vars
    /\ [](\A id \in Ids :
            \E q \in cfg.queries :
                Resolution(q).ok /\ st[id].params.gamePk = Resolution(q).pk)

\* A start request refused while a watcher is registered and id 2 is free.
C9_Witness ==
    /\ ev.op = "start" /\ ~ev.ok
    /\ watchers = {1}
    /\ nextWatchId = 2

\* The gamePk 7, supplied as the number or as the string, and the string
\* that stands for it.
IsSeven(v) == v = Num(7) \/ v = Str("7")

\* C10 as stated.  Whenever a gamePk is supplied (a value that is not
\* undefined, 0 or ""), whatever the team, the schedule and the simulate
\* flag, the resolver returns that gamePk, as a string, and makes no request.
C10_AsStated ==
    (rout.done /\ Truthy(rin.gamePk)) =>
        /\ rout.ok
        /\ rout.calls = <<>>
        /\ IsSeven(rin.gamePk) => rout.pk = "7"

\* C10, amended.  Without simulate, a supplied gamePk is returned, as a
\* string, and no request is made, whatever the team and the schedule; with
\* simulate the sentinel is returned, without a request, whatever gamePk was
\* supplied.
C10_Resolver ==
    rout.done =>
        /\ (~rin.simulate /\ Truthy(rin.gamePk)) =>
              /\ rout.ok
              /\ rout.calls = <<>>
              /\ IsSeven(rin.gamePk) => rout.pk = "7"
        /\ rin.simulate =>
              (rout.ok /\ rout.pk = "(simulation)" /\ rout.calls = <<>>)

\* A numeric gamePk with a team that no team matches: no request, "7".
C10_Witness ==
    /\ rout.done
    /\ ~rin.simulate
    /\ rin.gamePk = Num(7)
    /\ rin.team = <<"b", "b">>
    /\ rout.pk = "7"
    /\ rout.calls = <<>>

\* The counters of the player's entry are all zero or absent.
NoCounters(e) ==
    /\ \A c \in DOMAIN e.bat : e.bat[c] \in {Undef, Num(0)}
    /\ \A c \in DOMAIN e.fld : e.fld[c] \in {Undef, Num(0)}
    /\ \A c \in {"battersFaced", "pitchesThrown"} : e.pit[c] \in {Undef, Num(0)}
    /\ e.pit.inningsPitched \in {Undef, Str("0.0")}

\* No play description contains the player's name.
NoMention ==
    \A i \in 1..Len(snap.plays) :
        ~includes(toLowerCase(snap.plays[i]), toLowerCase(snap.playerName))

\* C11 as stated.  Whenever the player's roster entry has a battingOrder
\* that is not null or undefined, playerAppearedFromBoxscore returns true.
C11_AsStated ==
    (det.done /\ det.entry # <<>> /\ det.entry[1].battingOrder # Undef) => det.boxscore

\* C11, amended.  Whenever the player's roster entry has a battingOrder that
\* is not null, undefined or the empty string, playerAppearedFromBoxscore
\* returns true, whatever the counters.
C11_LineupMarker ==
    (det.done /\ det.entry # <<>>
        /\ det.entry[1].battingOrder # Undef /\ det.entry[1].battingOrder # Str(""))
    => det.boxscore

\* An entry with battingOrder '501' and every counter zero: active.
C11_Witness ==
    /\ det.done
    /\ det.entry # <<>>
    /\ det.entry[1].battingOrder = Str("501")
    /\ NoCounters(det.entry[1])
    /\ det.boxscore

\* C12 as stated.  Whenever every counter of the player's entry is zero or
\* absent and no play description mentions the player, the detector (in
\* getStatusOnce and in GET /api/playerStatus) returns not in the game.
C12_AsStated ==
    (det.done /\ det.entry # <<>> /\ NoCounters(det.entry[1]) /\ NoMention)
    => (~det.status.inGame /\ ~det.oneShot.inGame)

\* C12, amended.  Whenever the player's entry has no battingOrder (or an
\* empty one), every counter of it is zero or absent (inningsPitched absent
\* or '0.0') and no play description mentions the player, the detector
\* returns not in the game; so it does when the player has no entry at all.
C12_NothingSeen ==
    (det.done /\ NoMention
        /\ (det.entry # <<>> =>
               (~Truthy(det.entry[1].battingOrder) /\ NoCounters(det.entry[1]))))
    => (~det.boxscore /\ ~det.plays /\ ~det.status.inGame /\ ~det.oneShot.inGame)

\* An entry with every counter zero and inningsPitched '0.0', in a game in
\* progress whose plays name other players only.
C12_Witness ==
    /\ det.done
    /\ det.entry # <<>>
    /\ det.entry[1].battingOrder = Undef
    /\ det.entry[1].pit.inningsPitched = Str("0.0")
    /\ snap.home.present /\ snap.away.present
    /\ snap.plays = <<<<"c", "replaces", "d">>>>
    /\ det.oneShot.status = 200
    /\ ~det.status.inGame

\* C13.  Whenever a side of the boxscore is missing, the detector's result
\* is not in the game, whatever the plays are, in GET /api/playerStatus and
\* in the watcher's poll, and the poll decides no alert.
C13_PreGame ==
    (det.done /\ (~snap.home.present \/ ~snap.away.present))
    => (~det.oneShot.inGame /\ ~det.status.inGame /\ ~det.alert)

\* The dates the fallback is to probe, in order.
FallbackOrder ==
    <<Date0 - 1, Date0 - 2, Date0 - 3, Date0 + 1, Date0 + 2, Date0 + 3>>

HasGame(day) == getScheduleForDate(rin.net.sched, 1, day) # 0

\* C14.  With a team that resolves and no game on the target date, the
\* resolver returns the gamePk of the first of date-1, date-2, date-3,
\* date+1, date+2, date+3, in that order, that has a game; it throws when
\* none of the seven dates has a game.
C14_FallbackOrder ==
    (rout.done /\ ~rin.simulate /\ ~Truthy(rin.gamePk)
        /\ getTeamIdByName(rin.net.teams, rin.team) = <<1>> /\ ~HasGame(Date0))
    => LET hits == {i \in 1..6 : HasGame(FallbackOrder[i])}
           first == CHOOSE i \in hits : \A j \in hits : i <= j
       IN  IF hits = {}
           THEN ~rout.ok
           ELSE /\ rout.ok
                /\ rout.pk = NumToString(getScheduleForDate(rin.net.sched, 1, FallbackOrder[first]))

Armed(id) == IF st[id].timer.pending THEN 1 ELSE 0

\* C15 as stated.  Every registered watcher that is not stopped has its
\* timer armed, in every state.
C15_AsStated ==
    \A id \in watchers : ~st[id].stopped => Armed(id) = 1

\* C15, amended.  Every registered watcher is not stopped and has either its
\* timer armed and no loop() running, or no timer armed and one loop()
\* running (from the creation or the firing of the timer until the poll has
\* run to its end); a watcher that is not registered has no timer armed.
C15_TimerOrPoll ==
    /\ \A id \in watchers :
          /\ ~st[id].stopped
          /\ Armed(id) + obs[id].inflight = 1
          /\ obs[id].inflight = (IF proc[id].pc = "idle" THEN 0 ELSE 1)
    /\ \A id \in Ids \ watchers : Armed(id) = 0

\* A registered watcher whose timer has fired for its third poll: no timer
\* is armed while the poll is in flight.
C15_Witness ==
    \E id \in watchers :
        /\ obs[id].polls = 2
        /\ proc[id].pc = "fetch"
        /\ Armed(id) = 0
        /\ st[id].timer.set

\* C16.  At most one loop() of a watcher is running at any time; the timer
\* of a watcher is armed only by the step that ends a poll of that watcher
\* (the settling of getStatusOnce or of sendEmail); and every such step that
\* leaves the watcher not stopped arms the timer, for its delay from now.
C16_Reschedule ==
    /\ [](\A id \in Ids : obs[id].inflight <= 1)
    /\ [][\A id \in Ids :
            (st'[id].timer.pending /\ st'[id].timer # st[id].timer)
            => /\ proc[id].pc # "idle"
               /\ proc'[id].pc = "idle"
               /\ ev'.op \in {"poll", "sent"}
               /\ ev'.id = id]_vars
    /\ [][\A id \in Ids :
            (proc[id].pc # "idle" /\ proc'[id].pc = "idle" /\ ~st'[id].stopped)
            => /\ st'[id].timer.pending
               /\ st'[id].timer.due = now + st'[id].timer.ms
               /\ st'[id].timer.ms \in {POLL_FAST, POLL_SLOW, POLL_FINAL}
               /\ obs'[id].inflight = 0]_vars

\* The email of an alert has settled for a watcher that goes on, in a game
\* that is final: the timer is armed for 60 s.
C16_Witness ==
    \E id \in watchers :
        /\ ev.op = "sent" /\ ev.id = id
        /\ KeepsRunning(id)
        /\ st[id].timer.pending
        /\ st[id].timer.due = now + POLL_FINAL
        /\ obs[id].inflight = 0

\* C17 as stated.  lastAlertAt changes only in a poll that decided an alert,
\* and never in a poll whose sendEmail failed.
C17_AsStated ==
    [][\A id \in Ids :
         /\ st'[id].lastAlertAt # st[id].lastAlertAt
               => (ev'.id = id /\ ((ev'.op = "poll" /\ ev'.alert) \/ ev'.op = "sent"))
         /\ (ev'.op = "sent" /\ ev'.id = id /\ ~ev'.ok)
               => st'[id].lastAlertAt = st[id].lastAlertAt]_vars

\* C17, amended.  lastAlertAt changes only at the end of a poll that decided
\* an alert (a rising edge with the cooldown over): with the decision when no
\* email is sent, else when sendEmail has settled, whether it succeeded or
\* failed.  Its value is then the time of the decision, so that, but for the
\* time an email is pending, lastAlertAt is the time of the last alert
\* decided (0 when there was none).
C17_AlertTime ==
    /\ [](\A id \in Ids : proc[id].pc # "send" => st[id].lastAlertAt = obs[id].firedAt)
    /\ [][\A id \in Ids :
            st'[id].lastAlertAt # st[id].lastAlertAt
            => /\ ev'.id = id
               /\ \/ ev'.op = "poll" /\ ev'.alert /\ ~st[id].params.emailTo
                  \/ ev'.op = "sent" /\ proc[id].pc = "send"
               /\ st'[id].lastAlertAt = obs'[id].firedAt
               /\ obs'[id].alerts >= 1]_vars
    /\ [][\A id \in Ids :
            (ev'.op = "sent" /\ ev'.id = id)
            => st'[id].lastAlertAt = proc[id].at]_vars

\* A failed sendEmail that settled after the clock went on: lastAlertAt has
\* become the time of the decision.
C17_Witness ==
    \E id \in Ids :
        /\ ev.op = "sent" /\ ev.id = id /\ ~ev.ok
        /\ st[id].lastAlertAt = obs[id].firedAt
        /\ st[id].lastAlertAt >= StartClock
        /\ st[id].lastAlertAt < now

\* The label of the last poll contains the marker, in any case of letters.
HasMarker(label, marker) == includes(toLowerCase(label), <<marker>>)

\* The delay the poll that has just settled chose for the next poll: the one
\* of the armed timer, or the one kept while the email is pending.
ChosenMs(id) == IF proc[id].pc = "send" THEN proc[id].interval ELSE st[id].timer.ms

Chose(id) == ev.op = "poll" /\ ev.ok /\ ev.id = id
                /\ (proc[id].pc = "send" \/ st[id].timer.pending)

\* C18 as stated.  After a successful poll the next poll is 5 s away when
\* the label contains 'progress', 60 s away when it contains 'final', and
\* 30 s away for every other label.
C18_AsStated ==
    \A id \in Ids :
        Chose(id) =>
            /\ HasMarker(ev.label, "progress") => ChosenMs(id) = 5000
            /\ HasMarker(ev.label, "final") => ChosenMs(id) = 60000
            /\ (~HasMarker(ev.label, "progress") /\ ~HasMarker(ev.label, "final"))
                  => ChosenMs(id) = 30000

\* C18, amended.  After a successful poll the delay of the next poll depends
\* on the label alone: 5 s when the label contains 'progress', 60 s when it
\* contains 'final' and not 'progress', 30 s for every other label.
C18_Interval ==
    \A id \in Ids :
        Chose(id) =>
            /\ HasMarker(ev.label, "progress") => ChosenMs(id) = 5000
            /\ (HasMarker(ev.label, "final") /\ ~HasMarker(ev.label, "progress"))
                  => ChosenMs(id) = 60000
            /\ (~HasMarker(ev.label, "progress") /\ ~HasMarker(ev.label, "final"))
                  => ChosenMs(id) = 30000
            /\ st[id].timer.pending => st[id].timer.due = now + ChosenMs(id)

\* A poll that found no detailedState in the feed: 'Unknown', 30 s.
C18_Witness ==
    \E id \in watchers :
        /\ Chose(id)
        /\ ev.label = <<"Unknown">>
        /\ st[id].timer.pending
        /\ st[id].timer.due = now + 30000

\* C19.  A registered watcher does not stay for ever without an armed timer:
\* it gets one, or it is stopped and removed.  (Checked with the fairness
\* the code has: a simulated getStatusOnce settles; nothing bounds the time a
\* request of fetchLiveFeed or of sendEmail takes.)
C19_NoStuck ==
    (1 \in watchers) ~> (1 \notin watchers \/ st[1].timer.pending)

\* C20.  Once stopWatcher(id) has returned true (stopped is set), sendEmail
\* is not called for the watcher any more and its lastAlertAt and lastInGame
\* keep their values, also when a poll was in flight at the stop.
C20_AfterStop ==
    [][\A id \in Ids :
         st[id].stopped =>
            /\ obs'[id].sent = obs[id].sent
            /\ st'[id].lastAlertAt = st[id].lastAlertAt
            /\ st'[id].lastInGame = st[id].lastInGame]_vars

\* C21.  A poll that finds a rising edge inside the cooldown sets lastInGame
\* to true and decides no alert; from then on, as long as no poll reports
\* the player out of the game, lastInGame stays true and no poll decides an
\* alert, also when the cooldown is over; an alert after such an edge comes
\* only on a poll that reports the player in the game while lastInGame is
\* false.
C21_MissedEdge ==
    /\ [][\A id \in Ids :
            (ev'.op = "poll" /\ ev'.id = id /\ ev'.edge /\ ~ev'.alert)
            => (st'[id].lastInGame /\ obs'[id].alerts = obs[id].alerts)]_vars
    /\ [](\A id \in Ids : obs[id].missed => st[id].lastInGame)
    /\ [][\A id \in Ids :
            (ev'.op = "poll" /\ ev'.id = id /\ obs[id].missed /\ ev'.poll # "inactive")
            => (~ev'.alert /\ obs'[id].alerts = obs[id].alerts
                 /\ obs'[id].sent = obs[id].sent)]_vars
    /\ [][\A id \in Ids :
            (ev'.op = "poll" /\ ev'.id = id /\ ev'.alert /\ obs[id].blocked)
            => (~obs[id].missed /\ ~st[id].lastInGame /\ ev'.poll = "active")]_vars

\* A rising edge passed over inside the cooldown, and a poll that reports
\* the player in the game when the cooldown is over: no alert.
C21_Witness ==
    \E id \in watchers :
        /\ obs[id].missed
        /\ st[id].params.cooldownSec > 0
        /\ Elapsed(id) >= CooldownMs(id)
        /\ ev.op = "poll" /\ ev.id = id /\ ev.poll = "active" /\ ~ev.edge
        /\ obs[id].alerts = 1

====
